---- MODULE Spec2Model ----
(***************************************************************************)
(* Model of PyPI/visualizations/graphviz_output.py: create_graphviz, the   *)
(* function that prunes a package list by its dependency rows, truncates   *)
(* it to n nodes and writes a GraphViz digraph to a file.                  *)
(*                                                                         *)
(* A package is a record [id, name]; a dependency row is a record          *)
(* [package, needs_package, times].  A string handed to f.write is kept as  *)
(* a record of its constant text and the values interpolated into it.  The *)
(* writes go through the buffer of the file object: out is what was handed *)
(* to f.write, file is what has reached the file itself.                   *)
(***************************************************************************)
EXTENDS Integers, Sequences, FiniteSets

\* ---------------------------------------------------------------- bounds
MaxId == 2
MaxPkgs == 2
MaxDeps == 2
MaxN == 1
NegN == 1
MaxLongPkgs == 3
MaxLongDeps == 1

Ids == 1..MaxId
Names == {"a", "b"}
Times == {1}

\* ------------------------------------------------------- generic helpers
Range(s) == {s[i] : i \in 1..Len(s)}

Min(a, b) == IF a <= b THEN a ELSE b

Max(a, b) == IF a >= b THEN a ELSE b

Take(s, k) == [i \in 1..Min(Max(k, 0), Len(s)) |-> s[i]]

SeqsUpTo(S, k) == UNION {[1..m -> S] : m \in 0..k}

\* ------------------------------------------------------- the value of n
\* argparse leaves n at None when -n is absent, and type=int accepts any
\* integer, negative ones included.
NoneN == [set |-> FALSE, val |-> 0]

IntN(k) == [set |-> TRUE, val |-> k]

NValues == {NoneN} \cup {IntN(k) : k \in (0 - NegN)..MaxN}

\* a slice that keeps one element too many
SliceOneMore(s, m) ==
    IF ~m.set THEN s
    ELSE IF m.val >= 0 THEN Take(s, m.val + 1)
    ELSE Take(s, Len(s) + m.val + 1)

\* Python's s[:n]: None keeps all, n >= 0 keeps the first n, and n < 0
\* drops the last -n elements.
Slice(s, m) ==
    IF ~m.set THEN s
    ELSE IF m.val >= 0 THEN Take(s, m.val)
    ELSE Take(s, Len(s) + m.val)

\* ----------------------------------------------------------- the inputs
\* the rows of the two tables; nothing in the code keeps ids or names
\* of packages apart, or the ids of a dependency row among the packages
PackageRows == [id : Ids, name : Names]

DependencyRows == [package : Ids, needs_package : Ids, times : Times]

PackageLists(k) == SeqsUpTo(PackageRows, k)

DependencyLists(k) == SeqsUpTo(DependencyRows, k)

\* ------------------------------------------------------------ filtering
\* save_nodes without line 88: only the needed packages are added
SaveNodesNeededOnly(deps) == {deps[i].needs_package : i \in 1..Len(deps)}

\* lines 85-88
SaveNodes(deps) ==
    {deps[i].needs_package : i \in 1..Len(deps)}
        \cup {deps[i].package : i \in 1..Len(deps)}

\* the loop of lines 94-96 without its test
KeepAllPackages(ps, deps) == ps

\* lines 89-97
KeepWithEdges(ps, deps) ==
    LET save_nodes == SaveNodes(deps)
        keep(pkg) == pkg.id \in save_nodes
    IN  SelectSeq(ps, keep)

\* has_dependency without the continue of lines 103-104
SkipNoRow(dep) == FALSE

\* line 103: a self-dependency row is skipped
SkipRow(dep) == dep.package = dep.needs_package

\* lines 101-108: the dict has_dependency after the first k rows, from a
\* package id to the list of the packages it needs.
RECURSIVE HasDependencyUpTo(_, _)
HasDependencyUpTo(deps, k) ==
    IF k = 0 THEN <<>>
    ELSE LET acc == HasDependencyUpTo(deps, k - 1)
             dep == deps[k]
         IN  IF SkipRow(dep) THEN acc
             ELSE IF dep.package \in DOMAIN acc
             THEN [acc EXCEPT ![dep.package] = Append(@, dep.needs_package)]
             ELSE [p \in DOMAIN acc \cup {dep.package} |->
                       IF p = dep.package THEN <<dep.needs_package>>
                       ELSE acc[p]]

HasDependency(deps) == HasDependencyUpTo(deps, Len(deps))

\* lines 109-114
KeepWithOtherImport(ps, deps) ==
    LET has_dependency == HasDependency(deps)
        keep(pkg) == /\ pkg.id \in DOMAIN has_dependency
                     /\ Len(has_dependency[pkg.id]) >= 1
    IN  SelectSeq(ps, keep)

\* ------------------------------------------------------------- the text
\* line 120
HeaderLine == [kind |-> "digraph python_package_dependencies {\n"]

\* line 127: f'{pkg["id"]} [shape=point, label="{pkg["name"]}"];\n'
NodeText == "{id} [shape=point, label=\"{label}\"];\n"

NodeLine(pkg) == [kind |-> NodeText, id |-> pkg.id, label |-> pkg.name]

\* line 134: f"{dep['needs_package']} -> {dep['package']};\n"
EdgeText == "{from} -> {to};\n"

\* the edge written from package to needs_package
EdgeLineForward(dep) ==
    [kind |-> EdgeText, from |-> dep.package, to |-> dep.needs_package]

EdgeLine(dep) ==
    [kind |-> EdgeText, from |-> dep.needs_package, to |-> dep.package]

\* the test of line 133 with "or" for "and"
EdgeKeptEither(dep, ids) == dep.needs_package \in ids \/ dep.package \in ids

\* line 133
EdgeKept(dep, ids) == dep.needs_package \in ids /\ dep.package \in ids

\* line 135
CloseLine == [kind |-> "}"]

\* the file opened in mode "a": what it held stays
OpenA(content) == content

\* line 118: mode "w" truncates the file
OpenW(content) == <<>>

\* a string of which only a first part has reached the file
PartText == "{first part}"

PartOf(line) == [kind |-> PartText, of |-> line]

\* The buffer is written out in pieces that need not end where a line
\* ends.  A position counts the lines that have reached the file, twice,
\* plus one when a first part of the next line has reached it too.
DiskLen(pos) == (pos + 1) \div 2

\* the file: what it held when it was opened, then the part of the
\* strings handed to f.write that has reached it
Disk(start, handed, pos) ==
    start \o Take(handed, pos \div 2)
          \o (IF pos % 2 = 1 THEN <<PartOf(handed[pos \div 2 + 1])>> ELSE <<>>)

\* the file as an earlier run with other arguments left it
StaleFile ==
    <<HeaderLine,
      NodeLine([id |-> 1, name |-> "a"]),
      NodeLine([id |-> 2, name |-> "b"]),
      NodeLine([id |-> 3, name |-> "c"]),
      NodeLine([id |-> 4, name |-> "d"]),
      EdgeLine([package |-> 1, needs_package |-> 2, times |-> 1]),
      EdgeLine([package |-> 2, needs_package |-> 3, times |-> 1]),
      EdgeLine([package |-> 3, needs_package |-> 4, times |-> 1]),
      EdgeLine([package |-> 4, needs_package |-> 1, times |-> 1]),
      EdgeLine([package |-> 3, needs_package |-> 2, times |-> 1]),
      CloseLine>>

\* ---------------------------------------------------------------- state
VARIABLES
    packages,               \* argument: the package rows
    dependencies,           \* argument: the dependency rows
    n,                      \* argument: the node limit
    remove_no_edge,         \* argument
    remove_only_selfimport, \* argument
    pkgs,                   \* the local name `packages` as it is rebound
    pruned,                 \* the value of `packages` at line 115
    iter,                   \* packages[:n], the sequence the node loop walks
    i,                      \* position of the node loop in iter
    pkg_ids,                \* the list pkg_ids of lines 124-128
    pkg_id_set,             \* the set pkg_ids of line 130
    j,                      \* position of the edge loop in dependencies
    out,                    \* the strings handed to f.write in this call
    flushed,                \* the position in out that has reached the file
    file,                   \* content of the file named filename
    sink,                   \* "unopened", "open" or "closed"
    pc,                     \* where the call is
    again,                  \* TRUE in the second call with the same arguments
    prevOut                 \* file content when the first call returned

vars == <<packages, dependencies, n, remove_no_edge, remove_only_selfimport,
          pkgs, pruned, iter, i, pkg_ids, pkg_id_set, j, out, flushed, file,
          sink, pc, again, prevOut>>

args == <<packages, dependencies, n, remove_no_edge, remove_only_selfimport>>

io == <<out, flushed, file>>

\* the state in which create_graphviz is entered
Entered ==
    /\ n \in NValues
    /\ remove_no_edge \in BOOLEAN
    /\ remove_only_selfimport \in BOOLEAN
    /\ pkgs = packages
    /\ pruned = <<>>
    /\ iter = <<>>
    /\ i = 1
    /\ pkg_ids = <<>>
    /\ pkg_id_set = {}
    /\ j = 1
    /\ out = <<>>
    /\ flushed = 0
    /\ file = StaleFile
    /\ sink = "unopened"
    /\ pc = "start"
    /\ again = FALSE
    /\ prevOut = <<>>

\* few packages, with all the dependency lists between their ids and ids
\* of no package
Init ==
    /\ packages \in PackageLists(MaxPkgs)
    /\ dependencies \in DependencyLists(MaxDeps)
    /\ Entered

\* longer package lists with short dependency lists
InitLong ==
    /\ packages \in PackageLists(MaxLongPkgs)
    /\ dependencies \in DependencyLists(MaxLongDeps)
    /\ Entered

\* what the file held when it was opened
Start == Take(file, Len(file) - DiskLen(flushed))

\* lines 84-97
PruneNoEdge ==
    /\ pc = "start"
    /\ pkgs' = IF remove_no_edge \/ remove_only_selfimport
               THEN KeepWithEdges(pkgs, dependencies)
               ELSE pkgs
    /\ pc' = "selfimport"
    /\ UNCHANGED <<args, pruned, iter, i, pkg_ids, pkg_id_set, j, io, sink,
                   again, prevOut>>

\* lines 99-114
PruneSelfImport ==
    /\ pc = "selfimport"
    /\ pkgs' = IF remove_only_selfimport
               THEN KeepWithOtherImport(pkgs, dependencies)
               ELSE pkgs
    /\ pc' = "truncate"
    /\ UNCHANGED <<args, pruned, iter, i, pkg_ids, pkg_id_set, j, io, sink,
                   again, prevOut>>

\* lines 115-116
Truncate ==
    /\ pc = "truncate"
    /\ pruned' = pkgs
    /\ pkgs' = Slice(pkgs, n)
    /\ pc' = "open"
    /\ UNCHANGED <<args, iter, i, pkg_ids, pkg_id_set, j, io, sink, again,
                   prevOut>>

\* line 118
Open ==
    /\ pc = "open"
    /\ file' = OpenW(file)
    /\ out' = <<>>
    /\ flushed' = 0
    /\ sink' = "open"
    /\ pc' = "header"
    /\ UNCHANGED <<args, pkgs, pruned, iter, i, pkg_ids, pkg_id_set, j, again,
                   prevOut>>

\* line 118: open() raises, nothing was opened
OpenFails ==
    /\ pc = "open"
    /\ pc' = "raised"
    /\ UNCHANGED <<args, pkgs, pruned, iter, i, pkg_ids, pkg_id_set, j, io,
                   sink, again, prevOut>>

\* lines 120-125
WriteHeader ==
    /\ pc = "header"
    /\ out' = Append(out, HeaderLine)
    /\ pkg_ids' = <<>>
    /\ iter' = Slice(pkgs, n)
    /\ i' = 1
    /\ pc' = "nodes"
    /\ UNCHANGED <<args, pkgs, pruned, pkg_id_set, j, flushed, file, sink,
                   again, prevOut>>

\* a node loop that stops before the last element
NodeLoopDoneEarly(k, walked) == k >= Len(walked)

\* line 125: the for loop has walked all of its sequence
NodeLoopDone(k, walked) == k > Len(walked)

\* lines 125-128
WriteNode ==
    /\ pc = "nodes"
    /\ ~NodeLoopDone(i, iter)
    /\ out' = Append(out, NodeLine(iter[i]))
    /\ pkg_ids' = Append(pkg_ids, iter[i].id)
    /\ i' = i + 1
    /\ UNCHANGED <<args, pkgs, pruned, iter, pkg_id_set, j, flushed, file,
                   sink, pc, again, prevOut>>

\* line 130
BuildIdSet ==
    /\ pc = "nodes"
    /\ NodeLoopDone(i, iter)
    /\ pkg_id_set' = Range(pkg_ids)
    /\ j' = 1
    /\ pc' = "edges"
    /\ UNCHANGED <<args, pkgs, pruned, iter, i, pkg_ids, io, sink, again,
                   prevOut>>

\* lines 132-134
EdgeStep ==
    /\ pc = "edges"
    /\ j <= Len(dependencies)
    /\ out' = IF EdgeKept(dependencies[j], pkg_id_set)
              THEN Append(out, EdgeLine(dependencies[j]))
              ELSE out
    /\ j' = j + 1
    /\ UNCHANGED <<args, pkgs, pruned, iter, i, pkg_ids, pkg_id_set, flushed,
                   file, sink, pc, again, prevOut>>

\* line 135
WriteClose ==
    /\ pc = "edges"
    /\ j > Len(dependencies)
    /\ out' = Append(out, CloseLine)
    /\ pc' = "exit"
    /\ UNCHANGED <<args, pkgs, pruned, iter, i, pkg_ids, pkg_id_set, j,
                   flushed, file, sink, again, prevOut>>

\* lines 120-135: while the file is open, more of the buffer reaches it
Flush ==
    /\ sink = "open"
    /\ \E pos \in (flushed + 1)..(2 * Len(out)) :
           /\ flushed' = pos
           /\ file' = Disk(Start, out, pos)
    /\ UNCHANGED <<args, pkgs, pruned, iter, i, pkg_ids, pkg_id_set, j, out,
                   sink, pc, again, prevOut>>

\* a file object that nothing closes
SinkLeftOpen(s) == s

\* the state of the sink once the with block of line 118 is left: the
\* file object is closed also when its close raises
SinkAfterWith(s) == "closed"

\* line 118: the with block is left normally; the close has written out
\* the whole buffer
WithExit ==
    /\ pc = "exit"
    /\ flushed' = 2 * Len(out)
    /\ file' = Disk(Start, out, 2 * Len(out))
    /\ sink' = SinkAfterWith(sink)
    /\ pc' = "returned"
    /\ UNCHANGED <<args, pkgs, pruned, iter, i, pkg_ids, pkg_id_set, j, out,
                   again, prevOut>>

\* line 118: the close of the with block raises while it writes out the
\* buffer; the file keeps what has reached it
CloseFails ==
    /\ pc = "exit"
    /\ \E pos \in flushed..(2 * Len(out)) :
           /\ flushed' = pos
           /\ file' = Disk(Start, out, pos)
    /\ sink' = SinkAfterWith(sink)
    /\ pc' = "raised"
    /\ UNCHANGED <<args, pkgs, pruned, iter, i, pkg_ids, pkg_id_set, j, out,
                   again, prevOut>>

\* a call of f.write is due
WriteDue ==
    \/ pc = "header"
    \/ pc = "nodes" /\ ~NodeLoopDone(i, iter)
    \/ pc = "edges" /\ j <= Len(dependencies)
                    /\ EdgeKept(dependencies[j], pkg_id_set)
    \/ pc = "edges" /\ j > Len(dependencies)

\* the string of the call of f.write that is due
DueLine ==
    IF pc = "header" THEN HeaderLine
    ELSE IF pc = "nodes" THEN NodeLine(iter[i])
    ELSE IF j <= Len(dependencies) THEN EdgeLine(dependencies[j])
    ELSE CloseLine

\* lines 120, 127, 134, 135: f.write raises; the with block of line 118
\* is left by the exception, which goes on to the caller.  The file keeps
\* what has reached it of the strings handed to f.write, the last one
\* included.
WriteFails ==
    /\ WriteDue
    /\ out' = Append(out, DueLine)
    /\ \E pos \in flushed..(2 * Len(out')) :
           /\ flushed' = pos
           /\ file' = Disk(Start, out', pos)
    /\ sink' = SinkAfterWith(sink)
    /\ pc' = "raised"
    /\ UNCHANGED <<args, pkgs, pruned, iter, i, pkg_ids, pkg_id_set, j, again,
                   prevOut>>

\* the caller calls create_graphviz again with the same arguments
CallAgain ==
    /\ pc = "returned"
    /\ ~again
    /\ again' = TRUE
    /\ prevOut' = file
    /\ pkgs' = packages
    /\ pruned' = <<>>
    /\ iter' = <<>>
    /\ i' = 1
    /\ pkg_ids' = <<>>
    /\ pkg_id_set' = {}
    /\ j' = 1
    /\ out' = <<>>
    /\ flushed' = 0
    /\ sink' = "unopened"
    /\ pc' = "start"
    /\ UNCHANGED <<args, file>>

Next ==
    \/ PruneNoEdge
    \/ PruneSelfImport
    \/ Truncate
    \/ Open
    \/ OpenFails
    \/ WriteHeader
    \/ WriteNode
    \/ BuildIdSet
    \/ EdgeStep
    \/ WriteClose
    \/ Flush
    \/ WithExit
    \/ CloseFails
    \/ WriteFails
    \/ CallAgain

Spec == Init /\ [][Next]_vars

SpecLong == InitLong /\ [][Next]_vars

\* ------------------------------------------- reading the written strings
IsNode(l) == l.kind = NodeText

IsEdge(l) == l.kind = EdgeText

NodeLinesOf(f) == SelectSeq(f, IsNode)

EdgeLinesOf(f) == SelectSeq(f, IsEdge)

EmittedIds(f) == {f[k].id : k \in {m \in 1..Len(f) : IsNode(f[m])}}

\* the node lines of a package sequence, in its order
NodeLinesFor(ps) == [k \in 1..Len(ps) |-> [kind |-> NodeText, id |-> ps[k].id,
                                           label |-> ps[k].name]]

PackageIds == {packages[k].id : k \in 1..Len(packages)}

\* some row of the dependency list has p as an endpoint
Incident(p) ==
    \E k \in 1..Len(dependencies) :
        dependencies[k].package = p \/ dependencies[k].needs_package = p

\* some row of the dependency list goes from p to another package
ImportsOther(p) ==
    \E k \in 1..Len(dependencies) :
        dependencies[k].package = p /\ dependencies[k].needs_package # p

\* ------------------------------------------------------------------- C1
\* C1: every edge line written has both of its ids among the ids of the
\* node lines written in the same call, and a dependency row with an
\* endpoint that is no written node (a dangling id included) has no edge
\* line.
C1NoDanglingEdge ==
    LET ids == EmittedIds(out)
    IN  /\ \A k \in 1..Len(out) :
               IsEdge(out[k]) => out[k].from \in ids /\ out[k].to \in ids
        /\ \A k \in 1..Len(dependencies) :
               (\/ dependencies[k].package \notin ids
                \/ dependencies[k].needs_package \notin ids)
               => \A m \in 1..Len(out) :
                      IsEdge(out[m]) =>
                          ~(/\ out[m].from = dependencies[k].needs_package
                            /\ out[m].to = dependencies[k].package)

C1Witness ==
    /\ pc = "returned"
    /\ EdgeLinesOf(file) # <<>>
    /\ \E k \in 1..Len(dependencies) :
           /\ dependencies[k].package \in EmittedIds(file)
           /\ dependencies[k].needs_package \notin PackageIds

\* ------------------------------------------------------------------- C2
\* C2: the node lines written are exactly the first n packages of the
\* pruned sequence, in its order (all of them when n is None), for every
\* integer n, 0 and negative values included; their number is the length of
\* that prefix.
C2FirstNNodes ==
    pc = "returned" =>
        NodeLinesOf(file) =
            NodeLinesFor(IF n.set THEN Take(pruned, n.val) ELSE pruned)

\* ------------------------------------------------------------------- C3
\* C3: with remove_no_edge set, every node line written is for an id that is
\* the package or the needs_package of some row of the dependency list.
C3NodesHaveEdges ==
    remove_no_edge =>
        \A k \in 1..Len(out) : IsNode(out[k]) => Incident(out[k].id)

C3Witness ==
    /\ pc = "returned"
    /\ remove_no_edge
    /\ ~remove_only_selfimport
    /\ \E k \in 1..Len(packages) : ~Incident(packages[k].id)
    /\ \E p \in EmittedIds(file) :
           \A k \in 1..Len(dependencies) :
               (dependencies[k].package = p \/ dependencies[k].needs_package = p)
               => dependencies[k].package = dependencies[k].needs_package

\* ------------------------------------------------------------------- C4
\* C4: with remove_only_selfimport set, every node line written is for an id
\* that is the package of some row whose needs_package is another id.
C4NodesImportOther ==
    remove_only_selfimport =>
        \A k \in 1..Len(out) : IsNode(out[k]) => ImportsOther(out[k].id)

C4Witness ==
    /\ pc = "returned"
    /\ remove_only_selfimport
    /\ EmittedIds(file) # {}
    /\ \E k \in 1..Len(dependencies) :
           /\ dependencies[k].package = dependencies[k].needs_package
           /\ dependencies[k].package \in PackageIds
           /\ ~ImportsOther(dependencies[k].package)
    /\ \E k \in 1..Len(dependencies) :
           /\ dependencies[k].package # dependencies[k].needs_package
           /\ dependencies[k].needs_package \in PackageIds
           /\ ~ImportsOther(dependencies[k].needs_package)

\* ------------------------------------------------------------------- C5
\* C5: the edge lines written are the rows of the dependency list read so
\* far whose two ids are both written nodes, in the order of the list, one
\* line per row, each row written from needs_package to package and
\* without its times; a call that returns leaves them so in the file.
C5EdgesInOrder ==
    pc \in {"edges", "exit", "returned"} =>
        LET ids == EmittedIds(out)
            kept(d) == d.package \in ids /\ d.needs_package \in ids
            rows == SelectSeq(SubSeq(dependencies, 1, j - 1), kept)
            lines == [k \in 1..Len(rows) |->
                         [kind |-> EdgeText, from |-> rows[k].needs_package,
                          to |-> rows[k].package]]
        IN  /\ pc # "edges" => j = Len(dependencies) + 1
            /\ EdgeLinesOf(out) = lines
            /\ pc = "returned" => EdgeLinesOf(file) = lines

C5Witness ==
    /\ pc = "returned"
    /\ Len(dependencies) = 2
    /\ dependencies[1] = dependencies[2]
    /\ dependencies[1].package # dependencies[1].needs_package
    /\ Len(EdgeLinesOf(file)) = 2

\* ------------------------------------------------------------------- C6
\* C6 as stated: with n = 1 only the first package of the pruned sequence
\* has a node line and the file has no edge line.
C6NoEdgeAtAll ==
    (pc = "returned" /\ n = IntN(1)) =>
        /\ NodeLinesOf(file) = NodeLinesFor(Take(pruned, 1))
        /\ EdgeLinesOf(file) = <<>>

\* C6 as amended: with n = 1 only the first package of the pruned sequence
\* has a node line, and the edge lines are those of the rows in which that
\* package needs itself, one line per row; no edge line joins two ids.
C6OnlySelfEdges ==
    (pc = "returned" /\ n = IntN(1)) =>
        LET own(d) == /\ pruned # <<>>
                      /\ d.package = pruned[1].id
                      /\ d.needs_package = pruned[1].id
        IN  /\ NodeLinesOf(file) = NodeLinesFor(Take(pruned, 1))
            /\ \A k \in 1..Len(file) :
                   IsEdge(file[k]) => /\ file[k].from = file[k].to
                                      /\ file[k].from = pruned[1].id
            /\ Len(EdgeLinesOf(file)) = Len(SelectSeq(dependencies, own))

C6Witness ==
    /\ pc = "returned"
    /\ n = IntN(1)
    /\ Len(pruned) >= 2
    /\ Len(EdgeLinesOf(file)) = 1
    /\ \E k \in 1..Len(dependencies) :
           /\ dependencies[k].package # dependencies[k].needs_package
           /\ dependencies[k].package = pruned[1].id
           /\ dependencies[k].needs_package = pruned[2].id

\* ------------------------------------------------------------------- C7
\* C7: a call that returns leaves in the file exactly the strings it wrote,
\* nothing of the longer content the file held before, so a second call
\* with the same arguments leaves the file as the first call left it.
C7SameFileAgain ==
    pc = "returned" =>
        /\ again => file = prevOut
        /\ file = out
        /\ Len(file) =
               2 + Len(pkg_ids)
                 + Cardinality({k \in 1..Len(dependencies) :
                                    EdgeKept(dependencies[k], pkg_id_set)})

C7Witness ==
    /\ pc = "returned"
    /\ again
    /\ Len(file) > 3
    /\ Len(file) < Len(StaleFile)
    /\ EdgeLinesOf(file) # <<>>

\* ------------------------------------------------------------------- C8
LineRank(l) ==
    IF l.kind = HeaderLine.kind THEN 0
    ELSE IF IsNode(l) THEN 1
    ELSE IF IsEdge(l) THEN 2
    ELSE 3

\* C8: the strings a call has handed to f.write so far are the header first
\* and once, then one node line per package of the sequence the node loop
\* walks, in filter order, then edge lines, then the closing brace last and
\* once; an edge line is written only when every node line is, and the
\* brace is written when the loops are over.
C8WriteOrder ==
    LET len == Len(out)
        nodes == NodeLinesOf(out)
    IN  /\ len >= 1 => out[1] = HeaderLine
        /\ pc \in {"nodes", "edges", "exit", "returned"} => len >= 1
        /\ \A a \in 1..(len - 1) :
               /\ LineRank(out[a]) <= LineRank(out[a + 1])
               /\ LineRank(out[a + 1]) # 0
               /\ LineRank(out[a]) # 3
        /\ len >= 1 => /\ Len(nodes) <= Len(iter)
                       /\ nodes = NodeLinesFor(Take(iter, Len(nodes)))
                       /\ iter = Take(pruned, Len(iter))
        /\ (len >= 1 /\ LineRank(out[len]) >= 2) => Len(nodes) = Len(iter)
        /\ (len >= 1 /\ LineRank(out[len]) = 3)
               => out[len] = CloseLine /\ pc \in {"exit", "returned", "raised"}
        /\ pc \in {"exit", "returned"} => out[len] = CloseLine

C8Witness ==
    /\ pc = "returned"
    /\ Len(NodeLinesOf(file)) >= 2
    /\ Len(EdgeLinesOf(file)) >= 2
    /\ file[Len(file)] = CloseLine

\* ------------------------------------------------------------------- C9
\* The steps C9 allows: the file is opened only once pruning and truncation
\* are over; when the call is over, normally or by a failed write or close,
\* the file is closed; a call that raises writes nothing more, and the file
\* keeps what had reached it, with at most more of what was handed to
\* f.write; the call does nothing after it has raised.
C9Step ==
    /\ pc # "raised"
    /\ (sink # "open" /\ sink' = "open")
           => pc = "open" /\ pkgs = Slice(pruned, n) /\ pkgs' = pkgs
    /\ sink = "open" => pc \in {"header", "nodes", "edges", "exit"}
    /\ pc' \in {"returned", "raised"} => sink' # "open"
    /\ (pc' \in {"returned", "raised"} /\ sink = "open") => sink' = "closed"
    /\ (pc' = "raised" /\ pc # "open")
           => /\ sink = "open"
              /\ \/ pc = "exit" /\ out' = out
                 \/ WriteDue /\ out' = Append(out, DueLine)
    /\ (pc' = "raised" /\ pc = "open") => out' = out /\ sink' = sink
    /\ pc' = "raised" => /\ flushed' >= flushed
                         /\ flushed' <= 2 * Len(out')
                         /\ file' = Disk(Start, out', flushed')

\* C9: every step of a call is a step of C9Step: the file is opened after
\* truncation, closed whenever the call is over, and left with what had
\* been written when a write fails.
C9SinkClosed == [][C9Step]_vars

C9Witness ==
    /\ pc = "raised"
    /\ sink = "closed"
    /\ Len(EdgeLinesOf(out)) = 2
    /\ j = 2
    /\ flushed = 3
    /\ Len(file) = 2

\* ------------------------------------------------------------------ C10
\* C10: with remove_only_selfimport set, whether remove_no_edge is set or
\* not, the pruned sequence is the packages, in their order, that are the
\* package of some row whose needs_package is another id.
C10PrunedByOtherImport ==
    (remove_only_selfimport /\ pc \notin {"start", "selfimport"}) =>
        LET imports(pkg) == ImportsOther(pkg.id)
        IN  (IF pc = "truncate" THEN pkgs ELSE pruned)
                = SelectSeq(packages, imports)

C10Witness ==
    /\ pc = "open"
    /\ remove_only_selfimport
    /\ ~remove_no_edge
    /\ Len(packages) = 2
    /\ pruned = <<packages[2]>>
    /\ \E k \in 1..Len(dependencies) :
           dependencies[k].needs_package = packages[1].id

====
